---- MODULE Spec2Model ----
(***************************************************************************)
(* Button derivation of src/LLM/src/button_position_analyzer.py            *)
(* (ButtonPositionAnalyzer.analyze and its helpers) as a state machine.    *)
(*                                                                         *)
(* Conventions                                                             *)
(*  - A Python str is a tuple of one-character strings, so that upper(),   *)
(*    strip() and the substring test `a in b` are computed, not assumed.   *)
(*  - A Python dict is a function whose DOMAIN is its set of keys; a       *)
(*    missing key is a key outside the DOMAIN (Get is dict.get).           *)
(*  - rooms_data is the list of room objects; every other list of rooms    *)
(*    (filtered_rooms, missing_rooms, a button's room_data) holds          *)
(*    references to those objects: 1-based positions in rooms_data.        *)
(*  - Percentages are integers in units of 10^-NDIGITS (hundredths), the   *)
(*    precision round(.., 2) keeps; 95.0 is 9500.                          *)
(*  - Lists are 1-based here; Python's enumerate index i is i-1.           *)
(***************************************************************************)
EXTENDS Integers, Sequences, FiniteSets, TLC

VARIABLES
    client,          \* self.client is set (ANTHROPIC_API_KEY configured)
    rooms_data,      \* argument: list of room dicts
    width, height,   \* arguments: canvas size in pixels
    response,        \* the detector's answer once the call at line 114 ended
    pc,              \* position in analyze; once it returned, the return taken
    filtered_rooms,  \* local of analyze (references)
    buttons,         \* local of analyze / argument of _fix_overlapping_buttons
    fixed_buttons,   \* local of _fix_overlapping_buttons
    i,               \* enumerate position in _fix_overlapping_buttons
    x, y,            \* locals of _fix_overlapping_buttons
    overlaps,        \* local of _fix_overlapping_buttons
    attempts,        \* local of _fix_overlapping_buttons
    loop_exit,       \* per placed button: attempts and overlaps when its loop ended
    result,          \* the list analyze returned
    parked,          \* the frame of a second, concurrent call of analyze
    floor_plan       \* FloorPlanAnalyzer.analyze: its position and returned dict

vars == <<client, rooms_data, width, height, response, pc, filtered_rooms,
          buttons, fixed_buttons, i, x, y, overlaps, attempts, loop_exit, result,
          parked, floor_plan>>

---------------------------------------------------------------------------
(* Bounds of the model *)

\* longest room list built from arbitrary pool rooms
MaxRooms == 2
\* longest detection list of a detector response
MaxDetections == 2
\* longest room list of the long (cyclic) family
MaxGridRooms == 13

---------------------------------------------------------------------------
(* Python primitives *)

\* None where a room reference is expected (no room object)
None == 0
\* None where a str is expected
NoneStr == "None"

Get(d, k, default) == IF k \in DOMAIN d THEN d[k] ELSE default

Min(S) == CHOOSE m \in S : \A n \in S : m <= n

Abs(n) == IF n < 0 THEN -n ELSE n

LOWER == <<"a","b","c","d","e","f","g","h","i","j","k","l","m",
           "n","o","p","q","r","s","t","u","v","w","x","y","z">>
UPPER == <<"A","B","C","D","E","F","G","H","I","J","K","L","M",
           "N","O","P","Q","R","S","T","U","V","W","X","Y","Z">>

\* the upper-case letter of each lower-case letter
UpperOf == [c \in {LOWER[k] : k \in 1..Len(LOWER)} |->
               UPPER[CHOOSE k \in 1..Len(LOWER) : LOWER[k] = c]]

upper_char(c) == IF c \in DOMAIN UpperOf THEN UpperOf[c] ELSE c

\* str.upper()
str_upper(s) == [k \in 1..Len(s) |-> upper_char(s[k])]

Whitespace == {" "}

RECURSIVE str_lstrip(_)
str_lstrip(s) ==
    IF s # <<>> /\ Head(s) \in Whitespace THEN str_lstrip(Tail(s)) ELSE s

RECURSIVE str_rstrip(_)
str_rstrip(s) ==
    IF s # <<>> /\ s[Len(s)] \in Whitespace
    THEN str_rstrip(SubSeq(s, 1, Len(s) - 1))
    ELSE s

\* str.strip()
str_strip(s) == str_rstrip(str_lstrip(s))

\* a in b, for two str
str_in(a, b) ==
    \E k \in 0..(Len(b) - Len(a)) : SubSeq(b, k + 1, k + Len(a)) = a

\* digits kept by round(.., 2)
NDIGITS == 2
Scale == 10 ^ NDIGITS

\* n/d rounded to the nearest integer, ties to even (Python's round), d > 0
RoundHalfEven(n, d) ==
    LET q == n \div d
        r == n - q * d
    IN  IF 2 * r < d THEN q
        ELSE IF 2 * r > d THEN q + 1
        ELSE IF q % 2 = 0 THEN q ELSE q + 1

\* round(v, 2) of a value already held in hundredths
round2(v) == RoundHalfEven(v * Scale, Scale)

max(a, b) == IF a >= b THEN a ELSE b
min(a, b) == IF a <= b THEN a ELSE b

---------------------------------------------------------------------------
(* Inputs: rooms, detections, canvas sizes *)

Str_Bedroom == <<"B","e","d","r","o","o","m">>
Str_MasterBedroom == <<"M","a","s","t","e","r"," ","B","e","d","r","o","o","m">>
Str_Bath == <<"B","a","t","h">>
Str_Closet == <<"C","l","o","s","e","t">>
Str_Hall == <<"H","a","l","l">>

RoomBedroom == [name |-> Str_Bedroom, type |-> "bedroom", area_sqft |-> 120]
RoomMaster == [name |-> Str_MasterBedroom, type |-> "bedroom", area_sqft |-> 200]
RoomBath == [name |-> Str_Bath, type |-> "bathroom", area_sqft |-> 10]
RoomCloset == [name |-> Str_Closet, type |-> "closet", area_sqft |-> 40]
\* a room dict with no area
RoomHall == [name |-> Str_Hall, type |-> "hallway"]
\* a room dict with no name and no type
RoomNoName == [area_sqft |-> 30]

RoomPool == <<RoomBedroom, RoomMaster, RoomBath, RoomCloset, RoomHall, RoomNoName>>

Str_BEDROOM == <<"B","E","D","R","O","O","M">>
Str_MASTER_BEDROOM == <<"M","A","S","T","E","R"," ","B","E","D","R","O","O","M">>
Str_BATHROOM == <<"B","A","T","H","R","O","O","M">>
Str_master_suite == <<" ","m","a","s","t","e","r"," ","s","u","i","t","e"," ">>
Str_CLOSET == <<"C","L","O","S","E","T">>

DetBedroom == [room_name |-> Str_BEDROOM, x |-> 760, y |-> 570]
DetMaster == [room_name |-> Str_MASTER_BEDROOM, x |-> 760, y |-> 570]
DetBath == [room_name |-> Str_BATHROOM, x |-> -10, y |-> 900]
DetSuite == [room_name |-> Str_master_suite, x |-> 1, y |-> 1]
DetCloset == [room_name |-> Str_CLOSET, x |-> 400, y |-> 300]
\* a detection dict with no keys at all
DetEmpty == <<>>

DetectionPool == {DetBedroom, DetMaster, DetBath, DetSuite, DetCloset, DetEmpty}

CanvasSizes == {<<800, 600>>, <<0, 600>>}

\* Edge inputs: a bathroom whose name holds no keyword, a label holding two
\* keywords, a coordinate that is no number, canvases with a zero side
Str_Ensuite == <<"E","n","s","u","i","t","e">>
RoomEnsuite == [name |-> Str_Ensuite, type |-> "bathroom", area_sqft |-> 45]

Str_MASTER_BATH == <<"M","A","S","T","E","R"," ","B","A","T","H">>
DetMasterBath == [room_name |-> Str_MASTER_BATH, x |-> 400, y |-> 300]

\* a JSON value of another type than number (a str, null) where a coordinate is
\* expected: arithmetic on it raises TypeError
NonNumeric == -9999
DetMalformed == [room_name |-> Str_BEDROOM, x |-> NonNumeric, y |-> 300]

\* a closet that the filter rejects, and the label that names it
Str_MasterCloset == <<"M","a","s","t","e","r"," ","C","l","o","s","e","t">>
RoomMasterCloset == [name |-> Str_MasterCloset, type |-> "closet", area_sqft |-> 40]

Str_MASTER_CLOSET == <<"M","A","S","T","E","R"," ","C","L","O","S","E","T">>
DetMasterCloset == [room_name |-> Str_MASTER_CLOSET, x |-> 200, y |-> 150]

\* a room whose name is the empty str, and a label of whitespace only
RoomBlank == [name |-> <<>>, type |-> "office", area_sqft |-> 50]

DetBlank == [room_name |-> <<" ", " ">>, x |-> 600, y |-> 450]

\* rooms of the types the gap-fill lookup tells apart
Str_Kitchen == <<"K","i","t","c","h","e","n">>
RoomKitchen == [name |-> Str_Kitchen, type |-> "kitchen", area_sqft |-> 150]
Str_Dining == <<"D","i","n","i","n","g">>
RoomDining == [name |-> Str_Dining, type |-> "dining_room", area_sqft |-> 151]
Str_Lounge == <<"L","o","u","n","g","e">>
RoomLounge == [name |-> Str_Lounge, type |-> "living_room", area_sqft |-> 300]

\* a label next to the corner of the image
DetCorner == [room_name |-> Str_BEDROOM, x |-> 64, y |-> 24]

EdgeDetectionPool == {DetBedroom, DetMaster, DetBath, DetSuite, DetCloset, DetMasterBath,
                      DetMalformed, DetMasterCloset, DetBlank, DetEmpty, DetCorner}

EdgeCanvasSizes == {<<800, 600>>, <<0, 600>>, <<800, 0>>, <<0, 0>>}

\* Inputs of two concurrent calls
PairRoomLists == {<<RoomBath, RoomBedroom, RoomMaster>>, <<RoomBedroom, RoomBath>>,
                  <<RoomCloset>>}

PairCanvasSizes == {<<800, 600>>, <<0, 0>>}

PairDetections == {<<>>, <<DetBath, DetBedroom>>}

EdgeRoomLists == {<<>>, <<RoomCloset>>, <<RoomNoName>>, <<RoomBedroom, RoomBath>>,
                  <<RoomBedroom, RoomMaster>>, <<RoomEnsuite, RoomBedroom>>,
                  <<RoomEnsuite, RoomHall>>, <<RoomMasterCloset, RoomBedroom>>,
                  <<RoomBedroom, RoomBlank>>, <<RoomKitchen, RoomDining, RoomLounge>>,
                  <<RoomBath, RoomBedroom, RoomMaster>>, <<RoomBlank, RoomNoName>>}

SeqsUpTo(S, n) == UNION {[1..m -> S] : m \in 0..n}

\* the pool's rooms in pool order, repeated, n of them
CyclicRooms(n) == [k \in 1..n |-> RoomPool[((k - 1) % Len(RoomPool)) + 1]]

\* every list of at most MaxRooms pool rooms
RoomLists == SeqsUpTo({RoomPool[k] : k \in 1..Len(RoomPool)}, MaxRooms)

\* the long lists
GridRoomLists == {CyclicRooms(n) : n \in 0..MaxGridRooms}

\* what the detector call and the parsing of its answer can end in: an
\* exception, or the parsed "buttons" list
ResponsesOver(pool) ==
    {[ok |-> FALSE, buttons |-> <<>>]}
    \cup {[ok |-> TRUE, buttons |-> d] : d \in SeqsUpTo(pool, MaxDetections)}

Responses == ResponsesOver(DetectionPool)

EdgeResponses == ResponsesOver(EdgeDetectionPool)

PairResponses ==
    {[ok |-> FALSE, buttons |-> <<>>]}
    \cup {[ok |-> TRUE, buttons |-> d] : d \in PairDetections}

NoResponse == [ok |-> FALSE, buttons |-> <<>>]

---------------------------------------------------------------------------
(* Room Filter: analyze, lines 65-74 *)

MIN_AREA_SQFT == 30
EXCLUDED_TYPES == {"closet", "storage"}
IMPORTANT_TYPES == {"bathroom", "kitchen", "bedroom", "living_room", "dining_room"}

\* Eligible with the parentheses around the `or` lost (`and` binds tighter)
Eligible_precedence(r) ==
    \/ Get(r, "area_sqft", 0) >= MIN_AREA_SQFT
    \/ (Get(r, "type", "") \in IMPORTANT_TYPES
        /\ Get(r, "type", "") \notin EXCLUDED_TYPES)

\* the condition of the list comprehension
Eligible(r) ==
    /\ (Get(r, "area_sqft", 0) >= MIN_AREA_SQFT
        \/ Get(r, "type", "") \in IMPORTANT_TYPES)
    /\ Get(r, "type", "") \notin EXCLUDED_TYPES

\* the list comprehension, as references into rooms
RoomFilter(rooms) ==
    SelectSeq([k \in 1..Len(rooms) |-> k], LAMBDA k : Eligible(rooms[k]))

---------------------------------------------------------------------------
(* Full-fallback grid: _fallback_positions, lines 392-419 *)

\* fallback_positions with row and col exchanged (column-major)
fallback_positions_column_major(refs) ==
    [n \in 1..Len(refs) |->
        LET cols == 3
            row == (n - 1) % cols
            col == (n - 1) \div cols
        IN  [x_percent |-> (20 + (col * 30)) * Scale,
             y_percent |-> (20 + (row * 25)) * Scale,
             room_data |-> refs[n]]]

\* refs: the list of rooms handed over (references)
fallback_positions(refs) ==
    [n \in 1..Len(refs) |->
        LET cols == 3
            row == (n - 1) \div cols
            col == (n - 1) % cols
        IN  [x_percent |-> (20 + (col * 30)) * Scale,
             y_percent |-> (20 + (row * 25)) * Scale,
             room_data |-> refs[n]]]

\* the list rooms_data itself, as references
AllRefs(rooms) == [k \in 1..Len(rooms) |-> k]

---------------------------------------------------------------------------
(* Label Matcher: _find_matching_room, lines 233-269 *)

\* the dict type_keywords, in insertion (= iteration) order
type_keywords == <<
    [keyword |-> <<"L","I","V","I","N","G">>, room_type |-> "living_room"],
    [keyword |-> <<"B","E","D","R","O","O","M">>, room_type |-> "bedroom"],
    [keyword |-> <<"M","A","S","T","E","R">>, room_type |-> "bedroom"],
    [keyword |-> <<"K","I","T","C","H","E","N">>, room_type |-> "kitchen"],
    [keyword |-> <<"D","I","N","I","N","G">>, room_type |-> "dining_room"],
    [keyword |-> <<"B","A","T","H">>, room_type |-> "bathroom"],
    [keyword |-> <<"C","L","O","S","E","T">>, room_type |-> "closet"],
    [keyword |-> <<"O","F","F","I","C","E">>, room_type |-> "office"],
    [keyword |-> <<"G","A","R","A","G","E">>, room_type |-> "garage"],
    [keyword |-> <<"H","A","L","L","W","A","Y">>, room_type |-> "hallway"],
    [keyword |-> <<"E","N","T","R","A","N","C","E">>, room_type |-> "entrance"] >>

\* find_matching_room with the partial-match loop ahead of the exact-match loop
find_matching_room_partial_first(room_name, refs, rooms) ==
    LET room_name_upper == str_strip(str_upper(room_name))
        stored(k) == str_strip(str_upper(Get(rooms[refs[k]], "name", <<>>)))
        exact == {k \in 1..Len(refs) : stored(k) = room_name_upper}
        partial == {k \in 1..Len(refs) :
                        \/ str_in(room_name_upper, stored(k))
                        \/ str_in(stored(k), room_name_upper)}
        hits == {kw \in 1..Len(type_keywords) :
                    /\ str_in(type_keywords[kw].keyword, room_name_upper)
                    /\ \E k \in 1..Len(refs) :
                          Get(rooms[refs[k]], "type", NoneStr) = type_keywords[kw].room_type}
    IN  IF partial # {} THEN refs[Min(partial)]
        ELSE IF exact # {} THEN refs[Min(exact)]
        ELSE IF hits # {}
             THEN LET room_type == type_keywords[Min(hits)].room_type
                  IN  refs[Min({k \in 1..Len(refs) :
                                  Get(rooms[refs[k]], "type", NoneStr) = room_type})]
        ELSE None

\* find_matching_room with a guard `if not room_name_upper: return None`
find_matching_room_skip_blank(room_name, refs, rooms) ==
    LET room_name_upper == str_strip(str_upper(room_name))
        stored(k) == str_strip(str_upper(Get(rooms[refs[k]], "name", <<>>)))
        exact == {k \in 1..Len(refs) : stored(k) = room_name_upper}
        partial == {k \in 1..Len(refs) :
                        \/ str_in(room_name_upper, stored(k))
                        \/ str_in(stored(k), room_name_upper)}
        hits == {kw \in 1..Len(type_keywords) :
                    /\ str_in(type_keywords[kw].keyword, room_name_upper)
                    /\ \E k \in 1..Len(refs) :
                          Get(rooms[refs[k]], "type", NoneStr) = type_keywords[kw].room_type}
    IN  IF room_name_upper = <<>> THEN None
        ELSE IF exact # {} THEN refs[Min(exact)]
        ELSE IF partial # {} THEN refs[Min(partial)]
        ELSE IF hits # {}
             THEN LET room_type == type_keywords[Min(hits)].room_type
                  IN  refs[Min({k \in 1..Len(refs) :
                                  Get(rooms[refs[k]], "type", NoneStr) = room_type})]
        ELSE None

\* rooms: the room objects; refs: the list searched (references into rooms).
\* The reference of the room returned, or None.
find_matching_room(room_name, refs, rooms) ==
    LET room_name_upper == str_strip(str_upper(room_name))
        stored(k) == str_strip(str_upper(Get(rooms[refs[k]], "name", <<>>)))
        exact == {k \in 1..Len(refs) : stored(k) = room_name_upper}
        partial == {k \in 1..Len(refs) :
                        \/ str_in(room_name_upper, stored(k))
                        \/ str_in(stored(k), room_name_upper)}
        \* the (keyword, room) pairs the nested loops return at
        hits == {kw \in 1..Len(type_keywords) :
                    /\ str_in(type_keywords[kw].keyword, room_name_upper)
                    /\ \E k \in 1..Len(refs) :
                          Get(rooms[refs[k]], "type", NoneStr) = type_keywords[kw].room_type}
    IN  IF exact # {} THEN refs[Min(exact)]
        ELSE IF partial # {} THEN refs[Min(partial)]
        ELSE IF hits # {}
             THEN LET room_type == type_keywords[Min(hits)].room_type
                  IN  refs[Min({k \in 1..Len(refs) :
                                  Get(rooms[refs[k]], "type", NoneStr) = room_type})]
        ELSE None

---------------------------------------------------------------------------
(* Coordinate Normalizer and _process_button_data, lines 192-231 *)

\* to_percent without the clamp of lines 220-222
to_percent_unclamped(pixel, size) ==
    IF size > 0 THEN RoundHalfEven(pixel * 100 * Scale, size) ELSE 50 * Scale

\* lines 216-222: pixel to percentage (hundredths), clamped
to_percent(pixel, size) ==
    LET percent == IF size > 0
                   THEN RoundHalfEven(pixel * 100 * Scale, size)
                   ELSE 50 * Scale
    IN  max(0, min(100 * Scale, percent))

\* to_percent_raises without the guard `if width > 0`: the division by a size
\* of 0 raises ZeroDivisionError
to_percent_raises_unguarded(pixel, size) == size = 0 \/ pixel = NonNumeric

\* lines 217-218: the division raises TypeError on a value that is no number;
\* it is not evaluated when the size is not positive
to_percent_raises(pixel, size) == size > 0 /\ pixel = NonNumeric

\* one pass of the loop body: the buttons it appends, none when the detection
\* is skipped (`not room_info` is also true of a room that is an empty dict)
button_of_detection(btn, refs, rooms, w, h) ==
    LET room_name == Get(btn, "room_name", <<>>)
        bx == Get(btn, "x", 0)
        by == Get(btn, "y", 0)
        room_info == find_matching_room(room_name, refs, rooms)
    IN  IF room_info = None \/ DOMAIN rooms[room_info] = {}
        THEN <<>>
        ELSE <<[x_percent |-> to_percent(bx, w),
                y_percent |-> to_percent(by, h),
                room_data |-> room_info]>>

RECURSIVE process_button_data(_, _, _, _, _)
process_button_data(button_coords, refs, rooms, w, h) ==
    IF button_coords = <<>> THEN <<>>
    ELSE button_of_detection(Head(button_coords), refs, rooms, w, h)
         \o process_button_data(Tail(button_coords), refs, rooms, w, h)

\* _process_button_data raises: some detection that resolves to a room has a
\* coordinate the conversion raises on
process_button_data_raises(button_coords, refs, rooms, w, h) ==
    \E n \in 1..Len(button_coords) :
        /\ LET room_info == find_matching_room(Get(button_coords[n], "room_name", <<>>),
                                                refs, rooms)
           IN  room_info # None /\ DOMAIN rooms[room_info] # {}
        /\ \/ to_percent_raises(Get(button_coords[n], "x", 0), w)
           \/ to_percent_raises(Get(button_coords[n], "y", 0), h)

---------------------------------------------------------------------------
(* Gap-Fill Estimator: analyze lines 148-180, _create_fallback_buttons *)

\* line 150 raises KeyError when a button's room has no "name"
detected_names_raise(btns, rooms) ==
    \E n \in 1..Len(btns) : "name" \notin DOMAIN rooms[btns[n].room_data]

\* line 150: detected_room_names
detected_room_names(btns, rooms) ==
    {str_upper(rooms[btns[n].room_data].name) : n \in 1..Len(btns)}

\* the orders a for loop can iterate the set S in (a set of str iterates in
\* hash order, which changes from run to run)
IterationOrders(S) ==
    {order \in [1..Cardinality(S) -> S] : \A a \in S : \E k \in DOMAIN order : order[k] = a}

\* is_missing with the test inverted: only rooms already detected are added
is_missing_inverted(room, order) ==
    \E k \in 1..Len(order) : order[k] = str_upper(Get(room, "name", <<>>))

\* is_missing with the break outside the if: the inner loop ends after the
\* first detected name it iterates
is_missing_first_only(room, order) ==
    LET room_name == str_upper(Get(room, "name", <<>>))
    IN  /\ ~ \E k \in 1..Len(order) : order[k] = room_name
        /\ ~ \E k \in 1..Len(order) :
                /\ k = 1
                /\ str_in(room_name, order[k]) \/ str_in(order[k], room_name)

\* is_missing without the partial-match loop of lines 168-172
is_missing_exact_only(room, order) ==
    ~ \E k \in 1..Len(order) : order[k] = str_upper(Get(room, "name", <<>>))

\* lines 160-175: the room is appended to missing_rooms; order is the order
\* the inner loop iterates detected_room_names in
is_missing(room, order) ==
    LET room_name == str_upper(Get(room, "name", <<>>))
    IN  /\ ~ \E k \in 1..Len(order) : order[k] = room_name
        /\ ~ \E k \in 1..Len(order) :
                str_in(room_name, order[k]) \/ str_in(order[k], room_name)

\* lines 158-175: missing_rooms (references, in filtered order)
missing_rooms(refs, rooms, order) ==
    SelectSeq(refs, LAMBDA ref : is_missing(rooms[ref], order))

\* fallback_position with the two bedroom branches swapped
fallback_position_swapped(room) ==
    LET room_type == Get(room, "type", "other")
        room_area == Get(room, "area_sqft", 0)
    IN  IF room_type = "bathroom" THEN <<50 * Scale, 20 * Scale>>
        ELSE IF room_type = "kitchen" THEN <<15 * Scale, 15 * Scale>>
        ELSE IF room_type = "dining_room" THEN <<40 * Scale, 15 * Scale>>
        ELSE IF room_type = "bedroom"
             THEN IF room_area > 150 THEN <<75 * Scale, 15 * Scale>>
                  ELSE <<65 * Scale, 65 * Scale>>
        ELSE IF room_type = "living_room" THEN <<30 * Scale, 50 * Scale>>
        ELSE <<50 * Scale, 50 * Scale>>

\* fallback_position without the living_room branch
fallback_position_no_living(room) ==
    LET room_type == Get(room, "type", "other")
        room_area == Get(room, "area_sqft", 0)
    IN  IF room_type = "bathroom" THEN <<50 * Scale, 20 * Scale>>
        ELSE IF room_type = "kitchen" THEN <<15 * Scale, 15 * Scale>>
        ELSE IF room_type = "dining_room" THEN <<40 * Scale, 15 * Scale>>
        ELSE IF room_type = "bedroom"
             THEN IF room_area > 150 THEN <<65 * Scale, 65 * Scale>>
                  ELSE <<75 * Scale, 15 * Scale>>
        ELSE <<50 * Scale, 50 * Scale>>

\* lines 349-380: position by type and area
fallback_position(room) ==
    LET room_type == Get(room, "type", "other")
        room_area == Get(room, "area_sqft", 0)
    IN  IF room_type = "bathroom" THEN <<50 * Scale, 20 * Scale>>
        ELSE IF room_type = "kitchen" THEN <<15 * Scale, 15 * Scale>>
        ELSE IF room_type = "dining_room" THEN <<40 * Scale, 15 * Scale>>
        ELSE IF room_type = "bedroom"
             THEN IF room_area > 150 THEN <<65 * Scale, 65 * Scale>>
                  ELSE <<75 * Scale, 15 * Scale>>
        ELSE IF room_type = "living_room" THEN <<30 * Scale, 50 * Scale>>
        ELSE <<50 * Scale, 50 * Scale>>

\* _create_fallback_buttons, lines 332-390
create_fallback_buttons(refs, rooms) ==
    [n \in 1..Len(refs) |->
        [x_percent |-> fallback_position(rooms[refs[n]])[1],
         y_percent |-> fallback_position(rooms[refs[n]])[2],
         room_data |-> refs[n]]]

\* gap_filled with the gap-fill buttons put in front of the detection buttons
gap_filled_prepended(btns, refs, rooms, order) ==
    create_fallback_buttons(missing_rooms(refs, rooms, order), rooms) \o btns

\* lines 148-180: btns extended by the gap-fill buttons, as handed to the
\* Overlap Resolver
gap_filled(btns, refs, rooms, order) ==
    btns \o create_fallback_buttons(missing_rooms(refs, rooms, order), rooms)

---------------------------------------------------------------------------
(* Overlap Resolver: _fix_overlapping_buttons, lines 271-330 *)

BUTTON_WIDTH == 15 * Scale
BUTTON_HEIGHT == 8 * Scale
MIN_SPACING == 2 * Scale
max_attempts == 20

\* line 303
Overlap(ax, ay, px, py) ==
    /\ Abs(ax - px) < (BUTTON_WIDTH + MIN_SPACING)
    /\ Abs(ay - py) < (BUTTON_HEIGHT + MIN_SPACING)

\* Moved with the new position assigned to a copy: x and y stay as they were
Moved_Discarded(ax, ay, px, py) == <<ax, ay>>

\* lines 306-318: the position after moving away from the placed button
Moved(ax, ay, px, py) ==
    LET dx == Abs(ax - px)
        dy == Abs(ay - py)
    IN  IF dx < dy
        THEN IF ax < px THEN <<max(5 * Scale, ax - 10 * Scale), ay>>
                        ELSE <<min(95 * Scale, ax + 10 * Scale), ay>>
        ELSE IF ay < py THEN <<ax, max(5 * Scale, ay - 10 * Scale)>>
                        ELSE <<ax, min(95 * Scale, ay + 10 * Scale)>>

\* Conflicts with the inner loop starting one placed button too late
Conflicts_SkipFirst(ax, ay, placed) ==
    {k \in 2..Len(placed) : Overlap(ax, ay, placed[k].x_percent, placed[k].y_percent)}

\* the placed buttons the inner for loop finds overlapping (positions in
\* fixed_buttons); the loop breaks at the first
Conflicts(ax, ay, placed) ==
    {k \in 1..Len(placed) : Overlap(ax, ay, placed[k].x_percent, placed[k].y_percent)}

---------------------------------------------------------------------------
(* The state machine *)

\* no second call of analyze is under way
NoFrame == [pc |-> "none"]

\* FloorPlanAnalyzer.analyze is not under way
NoFloorPlan == [pc |-> "none"]

\* analyze is entered with a room list of `lists` and a canvas of `sizes`
InitWith(lists, sizes) ==
    /\ client \in BOOLEAN
    /\ rooms_data \in lists
    /\ \E size \in sizes : width = size[1] /\ height = size[2]
    /\ response = NoResponse
    /\ pc = "start"
    /\ filtered_rooms = <<>>
    /\ buttons = <<>>
    /\ fixed_buttons = <<>>
    /\ i = 0
    /\ x = 0
    /\ y = 0
    /\ overlaps = FALSE
    /\ attempts = 0
    /\ loop_exit = <<>>
    /\ result = <<>>
    /\ floor_plan = NoFloorPlan

\* one call of analyze, alone
Init == InitWith(RoomLists, CanvasSizes) /\ parked = NoFrame

InitGrid == InitWith(GridRoomLists, CanvasSizes) /\ parked = NoFrame

InitEdge == InitWith(EdgeRoomLists, EdgeCanvasSizes) /\ parked = NoFrame

\* the arguments and locals of the call of analyze that is running
Frame ==
    [rooms_data |-> rooms_data, width |-> width, height |-> height,
     response |-> response, pc |-> pc, filtered_rooms |-> filtered_rooms,
     buttons |-> buttons, fixed_buttons |-> fixed_buttons, i |-> i, x |-> x, y |-> y,
     overlaps |-> overlaps, attempts |-> attempts, loop_exit |-> loop_exit,
     result |-> result]

\* the frame of a call of analyze that has not taken a step
StartFrame(rooms, size) ==
    [rooms_data |-> rooms, width |-> size[1], height |-> size[2],
     response |-> NoResponse, pc |-> "start", filtered_rooms |-> <<>>,
     buttons |-> <<>>, fixed_buttons |-> <<>>, i |-> 0, x |-> 0, y |-> 0,
     overlaps |-> FALSE, attempts |-> 0, loop_exit |-> <<>>,
     result |-> <<>>]

\* two calls of analyze for two requests, on one analyzer (self.client)
InitPair ==
    /\ InitWith(PairRoomLists, PairCanvasSizes)
    /\ parked \in {StartFrame(rooms, size) : rooms \in PairRoomLists,
                                              size \in PairCanvasSizes}

\* the return statements of analyze: lines 63, 78, 186, 190
Returns == {"return_no_client", "return_no_rooms", "return_buttons", "return_fallback"}

\* ReturnFallback with the except clause raising again: analyze ends without
\* a return
ReturnFallback_Reraise ==
    /\ result' = result
    /\ pc' = "raised"

\* lines 188-190: an exception inside the try block is caught and
\* self._fallback_positions(rooms_data, ..) is returned
ReturnFallback ==
    /\ result' = fallback_positions(AllRefs(rooms_data))
    /\ pc' = "return_fallback"

\* lines 61-63: no API client configured
AnalyzeNoClient ==
    /\ pc = "start"
    /\ ~client
    /\ result' = fallback_positions(AllRefs(rooms_data))
    /\ pc' = "return_no_client"
    /\ UNCHANGED <<client, rooms_data, width, height, response, filtered_rooms,
                   buttons, fixed_buttons, i, x, y, overlaps, attempts, loop_exit,
                   parked, floor_plan>>

\* lines 61-78: the filter leaves no room
AnalyzeNoRooms ==
    /\ pc = "start"
    /\ client
    /\ RoomFilter(rooms_data) = <<>>
    /\ filtered_rooms' = RoomFilter(rooms_data)
    /\ result' = <<>>
    /\ pc' = "return_no_rooms"
    /\ UNCHANGED <<client, rooms_data, width, height, response,
                   buttons, fixed_buttons, i, x, y, overlaps, attempts, loop_exit,
                   parked, floor_plan>>

\* lines 61-131: the filter leaves rooms and the detector is called
CallDetector ==
    /\ pc = "start"
    /\ client
    /\ RoomFilter(rooms_data) # <<>>
    /\ filtered_rooms' = RoomFilter(rooms_data)
    /\ pc' = "detect"
    /\ UNCHANGED <<client, rooms_data, width, height, response, result,
                   buttons, fixed_buttons, i, x, y, overlaps, attempts, loop_exit,
                   parked, floor_plan>>

\* lines 114-140 raise (call, empty content, json.loads), then lines 188-190
DetectorFails ==
    /\ pc = "detect"
    /\ response' = [ok |-> FALSE, buttons |-> <<>>]
    /\ ReturnFallback
    /\ UNCHANGED <<client, rooms_data, width, height, filtered_rooms,
                   buttons, fixed_buttons, i, x, y, overlaps, attempts, loop_exit,
                   parked, floor_plan>>

\* lines 282-289 and 330, 183-186: the for loop of _fix_overlapping_buttons
\* over btns takes button k, or is over and analyze returns the placed list
ForLoop(btns, k, placed) ==
    IF k <= Len(btns)
    THEN /\ x' = btns[k].x_percent
         /\ y' = btns[k].y_percent
         /\ overlaps' = TRUE
         /\ attempts' = 0
         /\ pc' = "while"
         /\ UNCHANGED result
    ELSE /\ result' = placed
         /\ pc' = "return_buttons"
         /\ UNCHANGED <<x, y, overlaps, attempts>>

\* lines 133-183, up to the first pass of the while loop: the answer (one of
\* `responses`) is parsed, matched and gap-filled and the Overlap Resolver is
\* entered; lines 141-146 raise on a coordinate that is no number and line 150
\* raises when a matched room has no name (then lines 188-190)
DetectorAnswersWith(responses) ==
    /\ pc = "detect"
    /\ \E r \in responses :
          /\ r.ok
          /\ response' = r
          /\ LET btns == process_button_data(r.buttons, filtered_rooms,
                                             rooms_data, width, height)
             IN  IF \/ process_button_data_raises(r.buttons, filtered_rooms,
                                                  rooms_data, width, height)
                    \/ detected_names_raise(btns, rooms_data)
                 THEN /\ ReturnFallback
                      /\ UNCHANGED <<buttons, fixed_buttons, i,
                                     x, y, overlaps, attempts>>
                 ELSE /\ \E order \in IterationOrders(detected_room_names(btns, rooms_data)) :
                            buttons' = gap_filled(btns, filtered_rooms, rooms_data, order)
                      /\ fixed_buttons' = <<>>
                      /\ i' = 1
                      /\ ForLoop(buttons', 1, <<>>)
    /\ UNCHANGED <<client, rooms_data, width, height, filtered_rooms, loop_exit,
                   parked, floor_plan>>

DetectorAnswers == DetectorAnswersWith(Responses)

\* the same step with the answers of the edge inputs
DetectorAnswersEdge == DetectorAnswersWith(EdgeResponses)

\* Attempt without line 304 (overlaps = True): the while loop ends after the
\* first move, without testing the new position
Attempt_NoRecheck ==
    /\ pc = "while"
    /\ overlaps /\ attempts < max_attempts
    /\ LET found == Conflicts(x, y, fixed_buttons)
       IN  IF found = {}
           THEN /\ overlaps' = FALSE
                /\ attempts' = attempts + 1
                /\ UNCHANGED <<x, y, pc, result>>
           ELSE IF "name" \notin DOMAIN rooms_data[buttons[i].room_data]
           THEN /\ ReturnFallback
                /\ UNCHANGED <<x, y, overlaps, attempts>>
           ELSE LET placed_button == fixed_buttons[Min(found)]
                    to == Moved(x, y, placed_button.x_percent, placed_button.y_percent)
                IN  /\ x' = to[1]
                    /\ y' = to[2]
                    /\ overlaps' = FALSE
                    /\ attempts' = attempts + 1
                    /\ UNCHANGED <<pc, result>>
    /\ UNCHANGED <<client, rooms_data, width, height, response, filtered_rooms,
                   buttons, fixed_buttons, i, loop_exit, parked, floor_plan>>

\* lines 291-323: one pass of the while loop; the print at line 320 raises
\* when the moved button's room has no name (then lines 188-190)
Attempt ==
    /\ pc = "while"
    /\ overlaps /\ attempts < max_attempts
    /\ LET found == Conflicts(x, y, fixed_buttons)
       IN  IF found = {}
           THEN /\ overlaps' = FALSE
                /\ attempts' = attempts + 1
                /\ UNCHANGED <<x, y, pc, result>>
           ELSE IF "name" \notin DOMAIN rooms_data[buttons[i].room_data]
           THEN /\ ReturnFallback
                /\ UNCHANGED <<x, y, overlaps, attempts>>
           ELSE LET placed_button == fixed_buttons[Min(found)]
                    to == Moved(x, y, placed_button.x_percent, placed_button.y_percent)
                IN  /\ x' = to[1]
                    /\ y' = to[2]
                    /\ overlaps' = TRUE
                    /\ attempts' = attempts + 1
                    /\ UNCHANGED <<pc, result>>
    /\ UNCHANGED <<client, rooms_data, width, height, response, filtered_rooms,
                   buttons, fixed_buttons, i, loop_exit, parked, floor_plan>>

\* Place with fixed_buttons.insert(0, button) for the append of line 328
Place_Prepend ==
    /\ pc = "while"
    /\ ~(overlaps /\ attempts < max_attempts)
    /\ buttons' = [buttons EXCEPT ![i].x_percent = round2(x),
                                  ![i].y_percent = round2(y)]
    /\ fixed_buttons' = <<buttons'[i]>> \o fixed_buttons
    /\ loop_exit' = Append(loop_exit, [attempts |-> attempts, overlaps |-> overlaps])
    /\ i' = i + 1
    /\ ForLoop(buttons', i + 1, fixed_buttons')
    /\ UNCHANGED <<client, rooms_data, width, height, response, filtered_rooms,
                   parked, floor_plan>>

\* Place with the position also written into the button's room_data, the
\* caller's room dict
Place_WritesRoom ==
    /\ pc = "while"
    /\ ~(overlaps /\ attempts < max_attempts)
    /\ buttons' = [buttons EXCEPT ![i].x_percent = round2(x),
                                  ![i].y_percent = round2(y)]
    /\ rooms_data' = [rooms_data EXCEPT ![buttons[i].room_data] =
                        [k \in DOMAIN @ \cup {"x_percent", "y_percent"} |->
                            IF k = "x_percent" THEN round2(x)
                            ELSE IF k = "y_percent" THEN round2(y)
                            ELSE @[k]]]
    /\ fixed_buttons' = Append(fixed_buttons, buttons'[i])
    /\ loop_exit' = Append(loop_exit, [attempts |-> attempts, overlaps |-> overlaps])
    /\ i' = i + 1
    /\ ForLoop(buttons', i + 1, fixed_buttons')
    /\ UNCHANGED <<client, width, height, response, filtered_rooms,
                   parked, floor_plan>>

\* lines 291, 325-328, then the for loop: the while loop ends, the button is
\* updated in place and appended to the placed list
Place ==
    /\ pc = "while"
    /\ ~(overlaps /\ attempts < max_attempts)
    /\ buttons' = [buttons EXCEPT ![i].x_percent = round2(x),
                                  ![i].y_percent = round2(y)]
    /\ fixed_buttons' = Append(fixed_buttons, buttons'[i])
    /\ loop_exit' = Append(loop_exit, [attempts |-> attempts, overlaps |-> overlaps])
    /\ i' = i + 1
    /\ ForLoop(buttons', i + 1, fixed_buttons')
    /\ UNCHANGED <<client, rooms_data, width, height, response, filtered_rooms,
                   parked, floor_plan>>

Next ==
    \/ AnalyzeNoClient
    \/ AnalyzeNoRooms
    \/ CallDetector
    \/ DetectorFails
    \/ DetectorAnswers
    \/ Attempt
    \/ Place

Spec == Init /\ [][Next]_vars

\* the same program on the long room lists
SpecGrid == InitGrid /\ [][Next]_vars

\* the same program on the edge inputs
NextEdge ==
    \/ AnalyzeNoClient
    \/ AnalyzeNoRooms
    \/ CallDetector
    \/ DetectorFails
    \/ DetectorAnswersEdge
    \/ Attempt
    \/ Place

SpecEdge == InitEdge /\ [][NextEdge]_vars

\* Switch with fixed_buttons kept across the switch: the placed list shared by
\* the two calls (a class attribute, a mutable default) instead of a local
Switch_SharedPlaced ==
    /\ parked # NoFrame
    /\ parked' = Frame
    /\ rooms_data' = parked.rooms_data
    /\ width' = parked.width
    /\ height' = parked.height
    /\ response' = parked.response
    /\ pc' = parked.pc
    /\ filtered_rooms' = parked.filtered_rooms
    /\ buttons' = parked.buttons
    /\ i' = parked.i
    /\ x' = parked.x
    /\ y' = parked.y
    /\ overlaps' = parked.overlaps
    /\ attempts' = parked.attempts
    /\ loop_exit' = parked.loop_exit
    /\ result' = parked.result
    /\ UNCHANGED <<client, floor_plan, fixed_buttons>>

\* the running call is suspended and the other call resumed: each call has
\* its own arguments and locals; self.client belongs to the analyzer
Switch ==
    /\ parked # NoFrame
    /\ parked' = Frame
    /\ rooms_data' = parked.rooms_data
    /\ width' = parked.width
    /\ height' = parked.height
    /\ response' = parked.response
    /\ pc' = parked.pc
    /\ filtered_rooms' = parked.filtered_rooms
    /\ buttons' = parked.buttons
    /\ fixed_buttons' = parked.fixed_buttons
    /\ i' = parked.i
    /\ x' = parked.x
    /\ y' = parked.y
    /\ overlaps' = parked.overlaps
    /\ attempts' = parked.attempts
    /\ loop_exit' = parked.loop_exit
    /\ result' = parked.result
    /\ UNCHANGED <<client, floor_plan>>

\* the same step with the answers of the concurrent calls
DetectorAnswersPair == DetectorAnswersWith(PairResponses)

\* two calls whose steps interleave in any order
NextPair ==
    \/ AnalyzeNoClient
    \/ AnalyzeNoRooms
    \/ CallDetector
    \/ DetectorFails
    \/ DetectorAnswersPair
    \/ Attempt
    \/ Place
    \/ Switch

SpecPair == InitPair /\ [][NextPair]_vars

---------------------------------------------------------------------------
(* POST /analyze and FloorPlanAnalyzer.analyze: src/LLM/src/api.py lines     *)
(* 82-115, src/LLM/src/floor_plan_analyzer.py lines 59-128 and 204-287       *)

\* sizes of the uploaded image
FloorPlanSizes == {<<800, 600>>, <<1024, 768>>}

\* the encoded annotated image
AnnotatedPng == "annotated.png"

\* line 110: sum(r.get('area_sqft', 0) for r in rooms_data)
RECURSIVE total_area(_)
total_area(rooms) ==
    IF rooms = <<>> THEN 0
    ELSE Get(Head(rooms), "area_sqft", 0) + total_area(Tail(rooms))

\* lines 112-118: the dict returned on success
success_result(rooms) ==
    [status |-> "success",
     rooms |-> rooms,
     annotated_image_base64 |-> AnnotatedPng,
     total_area_sqft |-> total_area(rooms),
     room_count |-> Len(rooms)]

\* lines 121-128: the dict returned when an exception was caught
error_result ==
    [status |-> "error",
     error |-> "str(e)",
     rooms |-> <<>>,
     annotated_image_base64 |-> NoneStr,
     total_area_sqft |-> 0,
     room_count |-> 0]

\* the variables of ButtonPositionAnalyzer.analyze, which the floor plan
\* analysis never calls
analyze_vars == <<rooms_data, width, height, response, pc, filtered_rooms,
                  buttons, fixed_buttons, i, x, y, overlaps, attempts, loop_exit,
                  result, parked>>

\* an image was posted to /analyze; no call of ButtonPositionAnalyzer.analyze
\* is under way
InitFloorPlan ==
    /\ client \in BOOLEAN
    /\ floor_plan = [pc |-> "request"]
    /\ rooms_data = <<>>
    /\ width = 0
    /\ height = 0
    /\ response = NoResponse
    /\ pc = "none"
    /\ filtered_rooms = <<>>
    /\ buttons = <<>>
    /\ fixed_buttons = <<>>
    /\ i = 0
    /\ x = 0
    /\ y = 0
    /\ overlaps = FALSE
    /\ attempts = 0
    /\ loop_exit = <<>>
    /\ result = <<>>
    /\ parked = NoFrame

\* api.py lines 102-107: the upload is read and validated; an invalid one is
\* answered with HTTP 400
ApiValidate ==
    /\ floor_plan.pc = "request"
    /\ \/ floor_plan' = [pc |-> "start"]
       \/ floor_plan' = [pc |-> "responded", status_code |-> 400]
    /\ UNCHANGED <<client, analyze_vars>>

\* floor_plan_analyzer.py lines 79-85: the image is opened and measured, or
\* Image.open raises and lines 120-128 return the error dict
FloorPlanOpen ==
    /\ floor_plan.pc = "start"
    /\ \/ \E size \in FloorPlanSizes :
             floor_plan' = [pc |-> "opened", width |-> size[1], height |-> size[2]]
       \/ floor_plan' = [pc |-> "return", result |-> error_result]
    /\ UNCHANGED <<client, analyze_vars>>

\* lines 87-96: the overlay is requested (an image or None) and the rooms are
\* read by _analyze_with_claude: [] without a client or on an exception,
\* else the "rooms" of the answer
FloorPlanAnalyzeWithClaude ==
    /\ floor_plan.pc = "opened"
    /\ \E rasterscan_image \in BOOLEAN :
       \E rooms \in (IF client THEN RoomLists ELSE {<<>>}) :
          floor_plan' = [pc |-> "analyzed",
                         width |-> floor_plan.width, height |-> floor_plan.height,
                         rasterscan_image |-> rasterscan_image,
                         rooms_data |-> rooms]
    /\ UNCHANGED <<client, analyze_vars>>

\* lines 98-118: the annotated image is composed and encoded, the areas are
\* summed and the success dict is returned
FloorPlanReturn ==
    /\ floor_plan.pc = "analyzed"
    /\ floor_plan' = [pc |-> "return", result |-> success_result(floor_plan.rooms_data)]
    /\ UNCHANGED <<client, analyze_vars>>

\* api.py lines 109-110: the dict is sent as the JSON body
ApiRespond ==
    /\ floor_plan.pc = "return"
    /\ floor_plan' = [pc |-> "responded", status_code |-> 200,
                      content |-> floor_plan.result]
    /\ UNCHANGED <<client, analyze_vars>>

NextFloorPlan ==
    \/ ApiValidate
    \/ FloorPlanOpen
    \/ FloorPlanAnalyzeWithClaude
    \/ FloorPlanReturn
    \/ ApiRespond

SpecFloorPlan == InitFloorPlan /\ [][NextFloorPlan]_vars

---------------------------------------------------------------------------
(* analyze as a function of its inputs: one call run from entry to return *)

\* lines 291-323: the while loop of one button run to its end, from attempt n
\* on; named: the button's room has a name (line 320 raises if not)
RECURSIVE while_loop(_, _, _, _, _)
while_loop(ax, ay, n, placed, named) ==
    IF n >= max_attempts THEN [x |-> ax, y |-> ay, raised |-> FALSE]
    ELSE LET found == Conflicts(ax, ay, placed)
         IN  IF found = {} THEN [x |-> ax, y |-> ay, raised |-> FALSE]
             ELSE IF ~named THEN [x |-> ax, y |-> ay, raised |-> TRUE]
             ELSE LET placed_button == placed[Min(found)]
                      to == Moved(ax, ay, placed_button.x_percent, placed_button.y_percent)
                  IN  while_loop(to[1], to[2], n + 1, placed, named)

\* _fix_overlapping_buttons, lines 271-330, on the buttons left to place
RECURSIVE fix_overlapping_buttons(_, _, _)
fix_overlapping_buttons(btns, placed, rooms) ==
    IF btns = <<>> THEN [raised |-> FALSE, buttons |-> placed]
    ELSE LET button == Head(btns)
             at == while_loop(button.x_percent, button.y_percent, 0, placed,
                              "name" \in DOMAIN rooms[button.room_data])
         IN  IF at.raised THEN [raised |-> TRUE, buttons |-> <<>>]
             ELSE fix_overlapping_buttons(
                      Tail(btns),
                      Append(placed, [button EXCEPT !.x_percent = round2(at.x),
                                                    !.y_percent = round2(at.y)]),
                      rooms)

\* analyze, lines 39-190, given the detector's answer
analyze(cl, rooms, resp, w, h) ==
    IF ~cl THEN fallback_positions(AllRefs(rooms))
    ELSE LET refs == RoomFilter(rooms)
             btns == process_button_data(resp.buttons, refs, rooms, w, h)
         IN  IF refs = <<>> THEN <<>>
             ELSE IF \/ ~resp.ok
                     \/ process_button_data_raises(resp.buttons, refs, rooms, w, h)
                     \/ detected_names_raise(btns, rooms)
             THEN fallback_positions(AllRefs(rooms))
             ELSE LET order == CHOOSE o \in IterationOrders(detected_room_names(btns, rooms)) : TRUE
                      fixed == fix_overlapping_buttons(gap_filled(btns, refs, rooms, order),
                                                       <<>>, rooms)
                  IN  IF fixed.raised THEN fallback_positions(AllRefs(rooms))
                      ELSE fixed.buttons

\* analyze runs to its end: the interpreter takes the next step whenever
\* there is one
SpecEdgeLive == SpecEdge /\ WF_vars(NextEdge)

---------------------------------------------------------------------------
(* Vocabulary of the properties, taken from the specification's text *)

\* analyze has returned
Returned == pc \in Returns

\* the Room Filter rule (spec 4.1), missing fields read as zero / empty
PassesRoomFilter(room) ==
    LET area == Get(room, "area_sqft", 0)
        type == Get(room, "type", "")
    IN  /\ (area >= 30
            \/ type \in {"bathroom", "kitchen", "bedroom", "living_room", "dining_room"})
        /\ type \notin {"closet", "storage"}

\* the rooms of the input that pass the Room Filter (references)
EligibleRefs == {k \in 1..Len(rooms_data) : PassesRoomFilter(rooms_data[k])}

\* the eligible rooms in input order ("filtered order")
EligibleSeq ==
    [n \in 1..Cardinality(EligibleRefs) |->
        CHOOSE k \in EligibleRefs : Cardinality({j \in EligibleRefs : j <= k}) = n]

\* the rooms the buttons of a list are bound to, in list order
RoomsOf(btns) == [n \in 1..Len(btns) |-> btns[n].room_data]

\* the row-major grid of spec 4.4 over a list of rooms
GridButtons(refs) ==
    [n \in 1..Len(refs) |->
        [x_percent |-> (20 + 30 * ((n - 1) % 3)) * Scale,
         y_percent |-> (20 + 25 * ((n - 1) \div 3)) * Scale,
         room_data |-> refs[n]]]

\* the gap-fill lookup of spec 4.4
TypePosition(room) ==
    LET type == Get(room, "type", "")
    IN  CASE type = "bathroom" -> <<50 * Scale, 20 * Scale>>
          [] type = "kitchen" -> <<15 * Scale, 15 * Scale>>
          [] type = "dining_room" -> <<40 * Scale, 15 * Scale>>
          [] type = "bedroom" -> IF Get(room, "area_sqft", 0) > 150
                                 THEN <<65 * Scale, 65 * Scale>>
                                 ELSE <<75 * Scale, 15 * Scale>>
          [] type = "living_room" -> <<30 * Scale, 50 * Scale>>
          [] OTHER -> <<50 * Scale, 50 * Scale>>

\* two buttons are far enough apart: |dx| >= 17 or |dy| >= 10
Apart(a, b) ==
    \/ Abs(a.x_percent - b.x_percent) >= 17 * Scale
    \/ Abs(a.y_percent - b.y_percent) >= 10 * Scale

\* the detector was called and its answer was parsed
Answered == Returned /\ response.ok

---------------------------------------------------------------------------
(* Properties *)

\* C1: whenever the detection path returns, the button list has exactly as
\* many entries as there are rooms that pass the Room Filter.
C1_ButtonCountIsEligibleCount ==
    pc = "return_buttons" => Len(result) = Cardinality(EligibleRefs)

\* C2: no omissions: whenever the detection path returns, every room that
\* passes the Room Filter is bound to at least one button of the result.
C2_NoOmissions ==
    pc = "return_buttons" =>
        \A k \in EligibleRefs : \E n \in 1..Len(result) : result[n].room_data = k

\* C3: no duplicates: whenever the detection path returns, no room is bound
\* to more than one button of the result.
C3_NoDuplicates ==
    pc = "return_buttons" =>
        \A m, n \in 1..Len(result) :
            m # n => result[m].room_data # result[n].room_data

\* C4: every button of every returned list has 0 <= x_percent <= 100 and
\* 0 <= y_percent <= 100, on every path and for any number of rooms.
C4_PercentagesInRange ==
    Returned =>
        \A n \in 1..Len(result) :
            /\ 0 <= result[n].x_percent /\ result[n].x_percent <= 100 * Scale
            /\ 0 <= result[n].y_percent /\ result[n].y_percent <= 100 * Scale

\* C5 as stated: after the Overlap Resolver has run, every pair of buttons of
\* the detection path's result is apart (|dx| >= 17 or |dy| >= 10).
C5_NonOverlapping ==
    pc = "return_buttons" =>
        \A m, n \in 1..Len(result) : m < n => Apart(result[m], result[n])

\* C5 as amended: every pair of buttons of the detection path's result is
\* apart unless the later placed of the two used all 20 attempts and its last
\* attempt still found a conflict.
C5_NonOverlappingUnlessExhausted ==
    pc = "return_buttons" =>
        \A m, n \in 1..Len(result) :
            m < n =>
                \/ Apart(result[m], result[n])
                \/ (loop_exit[n].attempts = 20 /\ loop_exit[n].overlaps)

\* C5, the case: a button conflicted, was moved and was then accepted before
\* its attempts ran out.
C5_Witness ==
    /\ pc = "return_buttons"
    /\ \E n \in 2..Len(result) :
          /\ loop_exit[n].attempts \in 2..19
          /\ ~loop_exit[n].overlaps
          /\ <<result[n].x_percent, result[n].y_percent>>
                # <<result[1].x_percent, result[1].y_percent>>

\* C6: when the detector is unavailable (no client, or the call or the parsing
\* fails) the result is the grid over the rooms that pass the Room Filter, in
\* filtered order, and holds no button for a rejected room.
C6_FallbackGridOverEligible ==
    (pc = "return_no_client" \/ (pc = "return_fallback" /\ ~response.ok)) =>
        result = GridButtons(EligibleSeq)

\* C7 as stated: with a detector that reports no detections and a nonzero
\* canvas, the result is the full-fallback grid over the same rooms (over the
\* eligible rooms, or over all the rooms of the input).
C7_NoDetectionsGivesGrid ==
    (Answered /\ response.buttons = <<>> /\ width > 0 /\ height > 0) =>
        \/ result = GridButtons(EligibleSeq)
        \/ result = GridButtons(AllRefs(rooms_data))

\* C7 as amended: with a detector that reports no detections and a nonzero
\* canvas, the result holds the eligible rooms in filtered order (the rooms
\* and order of the grid over the eligible rooms), each button that met no
\* conflict at the gap-fill position of its room's type; only when a
\* gap-filled room without a name has to be moved is the result the
\* full-fallback grid over all the rooms of the input.
C7_NoDetectionsGivesGapFill ==
    (Answered /\ response.buttons = <<>> /\ width > 0 /\ height > 0) =>
        IF pc = "return_buttons"
        THEN /\ RoomsOf(result) = EligibleSeq
             /\ \A n \in 1..Len(result) :
                   loop_exit[n].attempts = 1 =>
                       <<result[n].x_percent, result[n].y_percent>>
                           = TypePosition(rooms_data[result[n].room_data])
        ELSE /\ result = GridButtons(AllRefs(rooms_data))
             /\ \E k \in EligibleRefs : "name" \notin DOMAIN rooms_data[k]

\* C7, the case: no detections, a nonzero canvas, two buttons or more, and a
\* result that is not the grid.
C7_Witness ==
    /\ pc = "return_buttons"
    /\ response.ok /\ response.buttons = <<>>
    /\ width > 0 /\ height > 0
    /\ Len(result) >= 2
    /\ result # GridButtons(EligibleSeq)

\* C8: if no room passes the Room Filter, analyze returns the empty list,
\* whether or not the detector is available.
C8_EmptyWhenNoEligibleRoom ==
    (Returned /\ EligibleRefs = {}) => result = <<>>

\* C9: whenever at least one room passes the Room Filter, the returned list
\* is not empty, on every path.
C9_NonEmptyWhenEligible ==
    (Returned /\ EligibleRefs # {}) => result # <<>>

\* C9, the case: detections were reported, none of them was matched, and the
\* detection path returned.
C9_Witness ==
    /\ pc = "return_buttons"
    /\ EligibleRefs # {}
    /\ response.buttons # <<>>
    /\ process_button_data(response.buttons, filtered_rooms, rooms_data,
                           width, height) = <<>>

\* C10: once the Room Filter has run, filtered_rooms holds exactly the rooms
\* with (area_sqft >= 30 or an always-included type) and a type that is
\* neither closet nor storage, in the order of the input; a closet of 40 sq ft
\* is left out and a bathroom of 10 sq ft is kept.
C10_RoomFilterRule ==
    pc \notin {"start", "return_no_client"} =>
        /\ \A m, n \in 1..Len(filtered_rooms) :
              m < n => filtered_rooms[m] < filtered_rooms[n]
        /\ {filtered_rooms[n] : n \in 1..Len(filtered_rooms)} = EligibleRefs
        /\ \A k \in 1..Len(rooms_data) :
              LET kept == \E n \in 1..Len(filtered_rooms) : filtered_rooms[n] = k
                  type == Get(rooms_data[k], "type", "")
                  area == Get(rooms_data[k], "area_sqft", 0)
              IN  /\ (type = "closet" /\ area = 40) => ~kept
                  /\ (type = "bathroom" /\ area = 10) => kept

\* C10, the case: the filter ran on a closet of 40 sq ft followed by a
\* bathroom of 10 sq ft and kept the bathroom alone.
C10_Witness ==
    /\ pc = "detect"
    /\ rooms_data = <<RoomCloset, RoomBath>>
    /\ filtered_rooms = <<2>>

---------------------------------------------------------------------------
(* Properties of the Coordinate Normalizer and the Overlap Resolver *)

\* how many buttons of `buttons` were made from detections (they come first)
NormalizedCount ==
    Len(process_button_data(response.buttons, filtered_rooms, rooms_data, width, height))

\* the buttons made from detections that the Overlap Resolver has not written
\* to yet (it writes button i when its while loop has ended)
Normalized == {n \in i..Len(buttons) : n <= NormalizedCount}

\* an eligible room has no name (the cause of the KeyError at lines 150, 320)
NamelessEligible == \E k \in EligibleRefs : "name" \notin DOMAIN rooms_data[k]

\* C11 as stated: with a canvas width or height of 0, a button made from a
\* matched detection has x_percent = 50 and y_percent = 50.
C11_ZeroCanvasGivesCentre ==
    (pc = "while" /\ (width = 0 \/ height = 0)) =>
        \A n \in Normalized : /\ buttons[n].x_percent = 50 * Scale
                              /\ buttons[n].y_percent = 50 * Scale

\* C11, amended: each axis is centred on its own. A button made from a matched
\* detection has x_percent = 50 when the width is 0 and y_percent = 50 when
\* the height is 0, and the zero side raises nothing: with a width of 0 the
\* except path is taken only for an eligible room without a name.
C11_ZeroSideCentresItsAxis ==
    /\ pc = "while" =>
          \A n \in Normalized : /\ width = 0 => buttons[n].x_percent = 50 * Scale
                                /\ height = 0 => buttons[n].y_percent = 50 * Scale
    /\ (pc = "return_fallback" /\ response.ok /\ width = 0) => NamelessEligible

\* C11, the case: a height of 0 and a positive width; the button of the first
\* detection is centred vertically and keeps its converted x.
C11_Witness ==
    /\ pc = "while" /\ i = 1
    /\ height = 0 /\ width > 0
    /\ NormalizedCount >= 1
    /\ buttons[1].y_percent = 50 * Scale
    /\ buttons[1].x_percent = 95 * Scale

\* the Overlap Resolver was handed two buttons, both at (50, 50), has placed
\* the first and is in the while loop of the second
TwoAtCentre ==
    /\ pc = "while" /\ i = 2 /\ Len(buttons) = 2
    /\ buttons[1].x_percent = 50 * Scale /\ buttons[1].y_percent = 50 * Scale
    /\ buttons[2].x_percent = 50 * Scale /\ buttons[2].y_percent = 50 * Scale

\* the while loop of the button in hand is over
WhileOver == ~(overlaps /\ attempts < max_attempts)

\* C12: given two buttons both at (50, 50), when the while loop of the second
\* button is over it has used fewer than 20 attempts and the position found is
\* at least 17 away horizontally or 10 away vertically from the first button's.
C12_TwoAtCentreResolve ==
    (TwoAtCentre /\ WhileOver) =>
        /\ attempts < 20
        /\ ~overlaps
        /\ \/ Abs(x - buttons[1].x_percent) >= 17 * Scale
           \/ Abs(y - buttons[1].y_percent) >= 10 * Scale

\* C12, the case: the second of two buttons at (50, 50) was moved once, to
\* (50, 60), and its second attempt found no conflict.
C12_Witness ==
    /\ TwoAtCentre /\ WhileOver
    /\ attempts = 2
    /\ x = 50 * Scale /\ y = 60 * Scale

---------------------------------------------------------------------------
(* Properties of the full-fallback grid generator *)

\* the full-fallback grid generator has run and analyze returned its list
GridReturned == pc \in {"return_no_client", "return_fallback"}

\* positions, in whole percent, of the buttons of a list
PositionsOf(btns) ==
    [n \in 1..Len(btns) |-> <<btns[n].x_percent, btns[n].y_percent>>]

\* C13: the full-fallback grid generator returns one button per room of its
\* input, in input order, the room at 0-based index i at x_percent = 20 +
\* 30*(i mod 3) and y_percent = 20 + 25*(i div 3); four rooms are placed at
\* (20,20), (50,20), (80,20), (20,45).
C13_GridFormula ==
    GridReturned =>
        /\ Len(result) = Len(rooms_data)
        /\ \A n \in 1..Len(result) :
              /\ result[n].room_data = n
              /\ result[n].x_percent = (20 + 30 * ((n - 1) % 3)) * Scale
              /\ result[n].y_percent = (20 + 25 * ((n - 1) \div 3)) * Scale
        /\ Len(rooms_data) = 4 =>
              PositionsOf(result) = << <<20 * Scale, 20 * Scale>>, <<50 * Scale, 20 * Scale>>,
                                       <<80 * Scale, 20 * Scale>>, <<20 * Scale, 45 * Scale>> >>

\* C13, the case: the generator ran on four rooms and put the fourth in the
\* second row.
C13_Witness ==
    /\ pc = "return_no_client"
    /\ Len(rooms_data) = 4 /\ Len(result) = 4
    /\ result[4].x_percent = 20 * Scale /\ result[4].y_percent = 45 * Scale

---------------------------------------------------------------------------
(* Totality and frame of analyze *)

\* a list of buttons, each bound to a room of the input
ButtonList(btns) ==
    \A n \in 1..Len(btns) :
        /\ DOMAIN btns[n] = {"x_percent", "y_percent", "room_data"}
        /\ btns[n].room_data \in 1..Len(rooms_data)

\* C14: analyze is total. Whatever the rooms (fields missing or not) and the
\* detections (fields missing, names unmatched, a coordinate that is no number,
\* an answer that cannot be parsed), the call ends in a return, what it
\* returns is a list of buttons, and a call that took the except path returns
\* the full-fallback grid over its room list.
C14_Total ==
    /\ <>Returned
    /\ [](Returned => ButtonList(result))
    /\ [](pc = "return_fallback" => result = GridButtons(AllRefs(rooms_data)))

\* C14, the case: the answer was parsed, every eligible room has a name, the
\* conversion of a coordinate that is no number raised and analyze returned
\* the fallback layout.
C14_Witness ==
    /\ pc = "return_fallback"
    /\ response.ok /\ ~NamelessEligible
    /\ \E n \in 1..Len(response.buttons) : response.buttons[n] = DetMalformed
    /\ result # <<>>

\* C15: analyze leaves its inputs alone. No step of a call changes the
\* caller's room list or a room record in it, and once the detector's answer
\* is parsed no step changes the detection list; the resolver's in-place
\* updates go to the button records the call created.
C15_InputsUnchanged ==
    [][/\ rooms_data' = rooms_data
       /\ response.ok => response' = response]_vars

\* C15, the case: analyze returned after the Overlap Resolver moved a button
\* and wrote its new position in place, and the rooms hold no key but their own.
C15_Witness ==
    /\ pc = "return_buttons"
    /\ \E n \in 1..Len(result) :
          /\ loop_exit[n].attempts > 1
          /\ result[n] = buttons[n]
          /\ "x_percent" \notin DOMAIN rooms_data[result[n].room_data]

---------------------------------------------------------------------------
(* Determinism and concurrent calls *)

\* both calls have returned
BothReturned == Returned /\ parked.pc \in Returns

\* the two calls were given the same rooms and canvas and got the same answer
SameInputs ==
    /\ rooms_data = parked.rooms_data
    /\ width = parked.width /\ height = parked.height
    /\ response = parked.response

\* C16: determinism. Two calls of analyze with identical rooms, detections
\* and canvas size return identical button lists, whichever order each of them
\* iterates the set of detected room names in.
C16_Deterministic ==
    (BothReturned /\ SameInputs) => result = parked.result

\* C16, the case: both calls got the same two detections for the same three
\* rooms, so that the set of detected names has two members and a third room
\* is tested against them, and both have returned.
C16_Witness ==
    /\ BothReturned /\ SameInputs
    /\ pc = "return_buttons"
    /\ Len(rooms_data) = 3
    /\ response.buttons = <<DetBath, DetBedroom>>
    /\ Len(result) = 2

\* C17: interleaving. Of two calls of analyze whose steps interleave in any
\* order, each returns what a call with its inputs returns when it runs from
\* entry to return on its own.
C17_SameAsAlone ==
    /\ Returned => result = analyze(client, rooms_data, response, width, height)
    /\ parked.pc \in Returns =>
          parked.result = analyze(client, parked.rooms_data, parked.response,
                                  parked.width, parked.height)

\* C17, the case: a call has returned from the Overlap Resolver with a moved
\* button while the other call, for another room list, is suspended inside the
\* while loop of its second button.
C17_Witness ==
    /\ pc = "return_buttons"
    /\ \E n \in 1..Len(result) : loop_exit[n].attempts > 1
    /\ parked.pc = "while" /\ parked.i = 2
    /\ parked.rooms_data # rooms_data

---------------------------------------------------------------------------
(* Properties of the floor-plan analysis result *)

\* POST /analyze has answered with the dict of a successful analysis
AnalysisSucceeded ==
    /\ floor_plan.pc = "responded"
    /\ floor_plan.status_code = 200
    /\ floor_plan.content.status = "success"

---------------------------------------------------------------------------
(* Properties of the Label Matcher *)

\* a name as the matcher compares it: case folded, trimmed
Folded(name) == str_strip(str_upper(name))

\* the detector's answer was parsed and its detections were matched
Matched == pc \notin {"none", "start", "detect"} /\ response.ok

\* the label of detection n of the answer
LabelOf(n) == Get(response.buttons[n], "room_name", <<>>)

\* the room detection n was resolved to: a reference, or None
RoomOf(n) == find_matching_room(LabelOf(n), filtered_rooms, rooms_data)

\* rule 1 of spec 4.2: the names are equal
ExactRule(label, k) ==
    Folded(Get(rooms_data[k], "name", <<>>)) = Folded(label)

\* rule 2 of spec 4.2: one name is a substring of the other
SubstringRule(label, k) ==
    \/ str_in(Folded(label), Folded(Get(rooms_data[k], "name", <<>>)))
    \/ str_in(Folded(Get(rooms_data[k], "name", <<>>)), Folded(label))

\* rule 3 of spec 4.2 for entry kw of the table: its keyword is in the label
\* and the room has its type
KeywordRule(label, kw, k) ==
    /\ str_in(type_keywords[kw].keyword, Folded(label))
    /\ "type" \in DOMAIN rooms_data[k]
    /\ rooms_data[k].type = type_keywords[kw].room_type

\* the first eligible room, in filtered order, of a nonempty set of them
FirstOf(S) == CHOOSE k \in S : \A j \in S : k <= j

\* C19: each detection resolves to at most one room, by the first rule that
\* succeeds on some eligible room: the exact rule, then the substring rule,
\* then the keyword rule, else to no room. An exact match on any eligible room
\* wins over a substring match on an earlier room, and "MASTER BEDROOM"
\* resolves to eligible room "Bedroom" by the substring rule.
C19_RulesInOrder ==
    Matched =>
        \A n \in 1..Len(response.buttons) :
            LET label == LabelOf(n)
                exact == {k \in EligibleRefs : ExactRule(label, k)}
                substring == {k \in EligibleRefs : SubstringRule(label, k)}
                keyword == {k \in EligibleRefs :
                               \E kw \in 1..Len(type_keywords) : KeywordRule(label, kw, k)}
            IN  /\ RoomOf(n) \in EligibleRefs \cup {None}
                /\ exact # {} => RoomOf(n) \in exact
                /\ (exact = {} /\ substring # {}) => RoomOf(n) \in substring
                /\ (exact = {} /\ substring = {} /\ keyword # {}) => RoomOf(n) \in keyword
                /\ (exact = {} /\ substring = {} /\ keyword = {}) => RoomOf(n) = None
                /\ (label = Str_MASTER_BEDROOM /\ exact = {}
                      /\ \E k \in EligibleRefs : rooms_data[k] = RoomBedroom)
                   => (rooms_data[RoomOf(n)].name = Str_Bedroom
                       /\ SubstringRule(label, RoomOf(n)))

\* C19, the case: "MASTER BEDROOM" was detected for the rooms Bedroom and
\* Master Bedroom and its button is bound to Master Bedroom, the second room,
\* although the substring rule succeeds on the first.
C19_Witness ==
    /\ pc = "while" /\ i = 1
    /\ rooms_data = <<RoomBedroom, RoomMaster>>
    /\ response.buttons = <<DetMaster>>
    /\ SubstringRule(Str_MASTER_BEDROOM, 1)
    /\ buttons[1].room_data = 2

\* C20 as stated: when neither the exact nor the substring rule matches and
\* the label contains a keyword of the table, the detection is matched to the
\* first eligible room, in filtered order, of the type that keyword maps to.
C20_KeywordGivesFirstRoomOfType ==
    Matched =>
        \A n \in 1..Len(response.buttons) :
            \A kw \in 1..Len(type_keywords) :
                LET label == LabelOf(n)
                    of_type == {k \in EligibleRefs : KeywordRule(label, kw, k)}
                IN  (/\ ~ \E k \in EligibleRefs : ExactRule(label, k) \/ SubstringRule(label, k)
                     /\ str_in(type_keywords[kw].keyword, Folded(label))
                     /\ of_type # {})
                    => RoomOf(n) = FirstOf(of_type)

---------------------------------------------------------------------------
(* Properties of the detections: discarding, conversion, gap-fill *)

\* the rooms of the input that the Room Filter rejects
RejectedRefs == (1..Len(rooms_data)) \ EligibleRefs

\* no rule of spec 4.2 succeeds for detection n on any eligible room
NoRuleSucceeds(n) ==
    \A k \in EligibleRefs :
        /\ ~ExactRule(LabelOf(n), k)
        /\ ~SubstringRule(LabelOf(n), k)
        /\ \A kw \in 1..Len(type_keywords) : ~KeywordRule(LabelOf(n), kw, k)

\* detection n names a room the Room Filter rejected, and no eligible room
NamesRejectedRoom(n) ==
    /\ \E k \in RejectedRefs : ExactRule(LabelOf(n), k)
    /\ \A k \in EligibleRefs : ~ExactRule(LabelOf(n), k)

\* the buttons _process_button_data makes of detection n: one or none
ButtonsOfDetection(n) ==
    button_of_detection(response.buttons[n], filtered_rooms, rooms_data, width, height)

\* C21: a detection for which no matching rule succeeds produces no button,
\* and a detection that names a room rejected by the Room Filter (a closet)
\* produces no button either; no button of the detection path's result is
\* bound to a rejected room.
C21_DiscardedDetectionsGiveNoButton ==
    Matched =>
        /\ \A n \in 1..Len(response.buttons) :
              /\ NoRuleSucceeds(n) => ButtonsOfDetection(n) = <<>>
              /\ NamesRejectedRoom(n) => ButtonsOfDetection(n) = <<>>
        /\ pc = "return_buttons" =>
              \A m \in 1..Len(result) : result[m].room_data \in EligibleRefs

\* v is clamp(round(pixel / size * 100, 2), 0, 100) in hundredths, size > 0:
\* inside (0, 100) it is a hundredth nearest to the quotient, and it is 0 or
\* 100 when the nearest hundredth is at or beyond that end
IsClampedPercent(v, pixel, size) ==
    /\ 0 <= v /\ v <= 100 * Scale
    /\ (0 < v /\ v < 100 * Scale) => 2 * Abs(v * size - pixel * 100 * Scale) <= size
    /\ v = 0 => 2 * (pixel * 100 * Scale) <= size
    /\ v = 100 * Scale => 2 * (100 * Scale * size - pixel * 100 * Scale) <= size

\* detection n has numbers (or nothing) for x and y
NumericCoordinates(n) ==
    /\ Get(response.buttons[n], "x", 0) # NonNumeric
    /\ Get(response.buttons[n], "y", 0) # NonNumeric

\* C22: on a canvas with width > 0 and height > 0, the button of a matched
\* detection at pixel (x, y) has x_percent = clamp(round(x / width * 100, 2),
\* 0, 100) and y_percent likewise with the height: a negative pixel gives 0, a
\* pixel beyond the canvas gives 100, a missing x or y is read as 0; and the
\* buttons handed on are these buttons.
C22_PixelToClampedPercent ==
    (Matched /\ width > 0 /\ height > 0) =>
        /\ \A n \in 1..Len(response.buttons) :
              (NumericCoordinates(n) /\ ButtonsOfDetection(n) # <<>>) =>
                  LET b == ButtonsOfDetection(n)[1]
                      px == Get(response.buttons[n], "x", 0)
                      py == Get(response.buttons[n], "y", 0)
                  IN  /\ IsClampedPercent(b.x_percent, px, width)
                      /\ IsClampedPercent(b.y_percent, py, height)
                      /\ px < 0 => b.x_percent = 0
                      /\ py < 0 => b.y_percent = 0
                      /\ px > width => b.x_percent = 100 * Scale
                      /\ py > height => b.y_percent = 100 * Scale
                      /\ "x" \notin DOMAIN response.buttons[n] => b.x_percent = 0
                      /\ "y" \notin DOMAIN response.buttons[n] => b.y_percent = 0
        /\ pc = "while" =>
              \A m \in Normalized :
                  \E n \in 1..Len(response.buttons) : ButtonsOfDetection(n) = <<buttons[m]>>

\* C22, the case: "BATHROOM" was detected at pixel (-10, 900) of a canvas of
\* 800 x 600 and matched, and its button is at (0, 100).
C22_Witness ==
    /\ pc = "while" /\ i = 1
    /\ width = 800 /\ height = 600
    /\ response.buttons = <<DetBath>>
    /\ rooms_data = <<RoomBedroom, RoomBath>>
    /\ buttons[1] = [x_percent |-> 0, y_percent |-> 100 * Scale, room_data |-> 2]

\* the gap-filled buttons that the Overlap Resolver has not written to yet:
\* they follow the buttons made from detections
GapFilled == {m \in i..Len(buttons) : m > NormalizedCount}

\* C23: the provisional position of a gap-filled button is given by its
\* room's type and area alone: bathroom (50,20), kitchen (15,15), dining_room
\* (40,15), bedroom (65,65) if area_sqft > 150 else (75,15), living_room
\* (30,50), any other or missing type (50,50), whatever the canvas and the
\* other rooms are.
C23_GapFillPositionByTypeAndArea ==
    (pc = "while" /\ response.ok) =>
        \A m \in GapFilled :
            LET room == rooms_data[buttons[m].room_data]
                type == Get(room, "type", "")
                area == Get(room, "area_sqft", 0)
                at == <<buttons[m].x_percent, buttons[m].y_percent>>
            IN  /\ type = "bathroom" => at = <<50 * Scale, 20 * Scale>>
                /\ type = "kitchen" => at = <<15 * Scale, 15 * Scale>>
                /\ type = "dining_room" => at = <<40 * Scale, 15 * Scale>>
                /\ (type = "bedroom" /\ area > 150) => at = <<65 * Scale, 65 * Scale>>
                /\ (type = "bedroom" /\ area <= 150) => at = <<75 * Scale, 15 * Scale>>
                /\ type = "living_room" => at = <<30 * Scale, 50 * Scale>>
                /\ type \notin {"bathroom", "kitchen", "dining_room", "bedroom", "living_room"}
                      => at = <<50 * Scale, 50 * Scale>>

\* C23, the case: a kitchen, a dining room and a living room were gap-filled
\* on a canvas of 0 x 0, and the living room's button is at (30, 50).
C23_Witness ==
    /\ pc = "while" /\ i = 1
    /\ width = 0 /\ height = 0
    /\ response.ok /\ response.buttons = <<>>
    /\ rooms_data = <<RoomKitchen, RoomDining, RoomLounge>>
    /\ Len(buttons) = 3
    /\ <<buttons[3].x_percent, buttons[3].y_percent>> = <<30 * Scale, 50 * Scale>>

\* the positions in `buttons` of the buttons made from detections
DetectionButtons == 1..NormalizedCount

\* the positions in `buttons` of the buttons added by the gap-fill
GapFillButtons == (NormalizedCount + 1)..Len(buttons)

\* the upper-cased name of the room with reference k
UpperName(k) == str_upper(Get(rooms_data[k], "name", <<>>))

\* the name of room k neither equals, contains, nor is contained in the name
\* of any room bound to a detection button
Uncovered(k) ==
    \A m \in DetectionButtons :
        LET detected == UpperName(buttons[m].room_data)
        IN  /\ UpperName(k) # detected
            /\ ~str_in(UpperName(k), detected)
            /\ ~str_in(detected, UpperName(k))

\* C24: the gap-fill adds exactly one button for each eligible room whose
\* upper-cased name neither equals, contains, nor is contained in the
\* upper-cased name of a room bound to a detection button, none for any other
\* room, and none for a room that is bound to a detection button.
C24_GapFillExactlyTheUncovered ==
    (pc \in {"while", "return_buttons"} /\ response.ok) =>
        /\ \A k \in 1..Len(rooms_data) :
              Cardinality({m \in GapFillButtons : buttons[m].room_data = k})
                  = IF k \in EligibleRefs /\ Uncovered(k) THEN 1 ELSE 0
        /\ \A m \in DetectionButtons : \A g \in GapFillButtons :
              buttons[m].room_data # buttons[g].room_data

\* C24, the case: "BEDROOM" was detected for the rooms Bath, Bedroom and
\* Master Bedroom; Bath got a gap-fill button and Master Bedroom, whose name
\* contains BEDROOM, got none.
C24_Witness ==
    /\ pc = "return_buttons"
    /\ response.buttons = <<DetBedroom>>
    /\ rooms_data = <<RoomBath, RoomBedroom, RoomMaster>>
    /\ RoomsOf(result) = <<2, 1>>

---------------------------------------------------------------------------
(* Properties of the Overlap Resolver's steps *)

\* the placed buttons that the button being processed, at (x, y), overlaps
Overlapped ==
    {k \in 1..Len(fixed_buttons) :
        /\ Abs(x - fixed_buttons[k].x_percent) < 17 * Scale
        /\ Abs(y - fixed_buttons[k].y_percent) < 10 * Scale}

\* a coordinate clamped into [5, 95]
Clamp5to95(v) == IF v < 5 * Scale THEN 5 * Scale ELSE IF v > 95 * Scale THEN 95 * Scale ELSE v

\* v was moved to w by 10 points away from p, clamped into [5, 95], and was
\* not brought closer to p
MovedAway(v, w, p) ==
    /\ \/ w = Clamp5to95(v - 10 * Scale)
       \/ w = Clamp5to95(v + 10 * Scale)
    /\ v < p => w <= v
    /\ v > p => w >= v
    /\ Abs(w - p) >= Abs(v - p)

\* a step of the while loop that found a conflict
ConflictStep == pc = "while" /\ pc' = "while" /\ attempts' = attempts + 1 /\ Overlapped # {}

\* C25: an attempt that finds a conflict moves the button relative to the
\* first placed button P it overlaps, along the axis with the smaller gap to P
\* (the y axis when the gaps are equal), by 10 points away from P, clamped
\* into [5, 95]; the other coordinate is unchanged and the button is not
\* brought closer to P on the moved axis.
C25_MovedAwayFromFirstConflict ==
    [][ConflictStep =>
          LET P == fixed_buttons[FirstOf(Overlapped)]
              dx == Abs(x - P.x_percent)
              dy == Abs(y - P.y_percent)
          IN  IF dx < dy
              THEN y' = y /\ MovedAway(x, x', P.x_percent)
              ELSE x' = x /\ MovedAway(y, y', P.y_percent)]_vars

\* the Overlap Resolver is running
Resolving == pc = "while"

\* the attempts the Overlap Resolver has made so far, over all buttons
RECURSIVE AttemptsOf(_)
AttemptsOf(exits) ==
    IF exits = <<>> THEN 0 ELSE Head(exits).attempts + AttemptsOf(Tail(exits))

\* C26: the Overlap Resolver always terminates and does not raise: once
\* entered it returns; a button gets at most 20 attempts; an attempt that
\* finds no conflict is the button's last; the button is appended to the
\* placed list whether or not its attempts ran out; for n buttons it returns n
\* buttons after at most 20 * n attempts.
C26_ResolverTerminates ==
    /\ [](Resolving => <>(pc = "return_buttons"))
    /\ [](Resolving => attempts <= 20)
    /\ [][Resolving => pc' \in {"while", "return_buttons"}]_vars
    /\ [][(Resolving /\ attempts' = attempts + 1 /\ Overlapped = {})
            => (pc' = "while" /\ ~overlaps')]_vars
    /\ [][(Resolving /\ WhileOver)
            => (/\ Len(fixed_buttons') = Len(fixed_buttons) + 1
                /\ fixed_buttons'[Len(fixed_buttons')].room_data = buttons[i].room_data)]_vars
    /\ [](pc = "return_buttons" =>
            /\ Len(result) = Len(buttons)
            /\ AttemptsOf(loop_exit) <= 20 * Len(buttons))

\* the detections that were matched to a room, in detection order
MatchedDetections ==
    SelectSeq([n \in 1..Len(response.buttons) |-> n], LAMBDA n : RoomOf(n) # None)

\* the rooms of the matched detections, in detection order
DetectedRooms == [m \in 1..Len(MatchedDetections) |-> RoomOf(MatchedDetections[m])]

\* the eligible rooms no detected room's name covers, in Room Filter order
UncoveredRooms ==
    SelectSeq(EligibleSeq,
              LAMBDA k : \A m \in 1..Len(DetectedRooms) :
                            /\ UpperName(k) # UpperName(DetectedRooms[m])
                            /\ ~str_in(UpperName(k), UpperName(DetectedRooms[m]))
                            /\ ~str_in(UpperName(DetectedRooms[m]), UpperName(k)))

\* C27: the list the detection path returns holds the buttons made from
\* detections first, in detection order, then the gap-filled buttons in Room
\* Filter order; the Overlap Resolver takes the buttons in that order and its
\* placed list is, at every moment, the buttons it has taken so far in that
\* order.
C27_DetectionsThenGapFillInOrder ==
    /\ (pc \in {"while", "return_buttons"} /\ response.ok) =>
          RoomsOf(buttons) = DetectedRooms \o UncoveredRooms
    /\ (pc = "while" /\ response.ok) =>
          RoomsOf(fixed_buttons) = SubSeq(RoomsOf(buttons), 1, i - 1)
    /\ pc = "return_buttons" => RoomsOf(result) = DetectedRooms \o UncoveredRooms

\* C27, the case: for the rooms Bath, Bedroom and Master Bedroom the detector
\* reported "MASTER BEDROOM" and then "BEDROOM"; the result holds Master
\* Bedroom, Bedroom and then the gap-filled Bath.
C27_Witness ==
    /\ pc = "return_buttons"
    /\ rooms_data = <<RoomBath, RoomBedroom, RoomMaster>>
    /\ response.buttons = <<DetMaster, DetBedroom>>
    /\ RoomsOf(result) = <<3, 2, 1>>
    /\ <<result[3].x_percent, result[3].y_percent>> = <<50 * Scale, 20 * Scale>>

\* C28: among the buttons the Overlap Resolver has placed, a button placed
\* later than another is apart from it (|dx| >= 17 or |dy| >= 10) or used all
\* 20 attempts; a button whose loop ended before the 20th attempt overlaps no
\* button placed before it.
C28_PlacedApartUnlessTwentyAttempts ==
    (pc \in {"while", "return_buttons"} /\ response.ok) =>
        /\ Len(loop_exit) = Len(fixed_buttons)
        /\ \A b \in 1..Len(fixed_buttons) :
              /\ \A p \in 1..(b - 1) :
                    Apart(fixed_buttons[p], fixed_buttons[b]) \/ loop_exit[b].attempts = 20
              /\ loop_exit[b].attempts < 20 =>
                    \A p \in 1..(b - 1) : Apart(fixed_buttons[p], fixed_buttons[b])

\* C28, the case: a button used all 20 attempts and still overlaps the button
\* placed before it, and the button placed after the two, whose loop ended at
\* its first attempt, is apart from both.
C28_Witness ==
    /\ pc = "return_buttons"
    /\ Len(result) = 3
    /\ loop_exit[2].attempts = 20
    /\ ~Apart(result[1], result[2])
    /\ loop_exit[3].attempts = 1
    /\ Apart(result[1], result[3]) /\ Apart(result[2], result[3])

\* C29: a step of the Overlap Resolver changes nothing but the x_percent and
\* y_percent of the button in hand: the other buttons, the buttons already
\* placed, the room of every button and the length and order of the list
\* stay; the first button, and a button that conflicts with no button placed
\* before it, is placed at its provisional position.
C29_OnlyOwnPositionChanges ==
    [][Resolving =>
          /\ Len(buttons') = Len(buttons)
          /\ RoomsOf(buttons') = RoomsOf(buttons)
          /\ \A m \in 1..Len(buttons) : m # i => buttons'[m] = buttons[m]
          /\ SubSeq(fixed_buttons', 1, Len(fixed_buttons)) = fixed_buttons
          /\ Len(fixed_buttons') > Len(fixed_buttons) =>
                /\ fixed_buttons' = Append(fixed_buttons, buttons'[i])
                /\ (i = 1 \/ \A p \in 1..Len(fixed_buttons) :
                                 Apart(fixed_buttons[p], buttons[i]))
                   => buttons'[i] = buttons[i]
          /\ pc' = "return_buttons" => result' = buttons']_vars

\* C29, the case: two buttons with the provisional position (50, 50) went
\* through the Overlap Resolver; the first is still at (50, 50), the second
\* was moved to (50, 60), and each is bound to the room it was bound to.
C29_Witness ==
    /\ pc = "return_buttons"
    /\ width = 0 /\ height = 0
    /\ rooms_data = <<RoomBedroom, RoomBath>>
    /\ response.buttons = <<DetBath, DetBedroom>>
    /\ result = <<[x_percent |-> 50 * Scale, y_percent |-> 50 * Scale, room_data |-> 2],
                  [x_percent |-> 50 * Scale, y_percent |-> 60 * Scale, room_data |-> 1]>>

---------------------------------------------------------------------------
(* Properties of detections without a label *)

\* a str that is empty or holds whitespace only
Blank(name) == \A c \in 1..Len(name) : name[c] = " "

\* the button of detection n is bound to room k and lies at the detection's
\* coordinates (at 50 on an axis whose canvas side is 0)
ButtonAtDetection(n, k) ==
    /\ Len(ButtonsOfDetection(n)) = 1
    /\ LET b == ButtonsOfDetection(n)[1]
           px == Get(response.buttons[n], "x", 0)
           py == Get(response.buttons[n], "y", 0)
       IN  /\ b.room_data = k
           /\ IF width > 0 THEN IsClampedPercent(b.x_percent, px, width)
                           ELSE b.x_percent = 50 * Scale
           /\ IF height > 0 THEN IsClampedPercent(b.y_percent, py, height)
                            ELSE b.y_percent = 50 * Scale

\* C30 as stated: a detection whose room_name is empty, whitespace-only or
\* missing is not discarded when a room is eligible: the substring rule
\* matches it to the first eligible room and it makes a button bound to that
\* room at the detection's coordinates.
C30_BlankLabelGoesToFirstEligible ==
    Matched =>
        \A n \in 1..Len(response.buttons) :
            (Blank(LabelOf(n)) /\ NumericCoordinates(n) /\ EligibleRefs # {}) =>
                /\ SubstringRule(LabelOf(n), FirstOf(EligibleRefs))
                /\ ButtonAtDetection(n, FirstOf(EligibleRefs))

\* C30, amended: such a detection is not discarded when a room is eligible:
\* if an eligible room has an empty, whitespace-only or missing name, the
\* exact rule matches the detection to the first such room; otherwise the
\* substring rule matches it to the first eligible room. It makes a button
\* bound to that room at the detection's coordinates.
C30_BlankLabelGoesToBlankNameOrFirst ==
    Matched =>
        \A n \in 1..Len(response.buttons) :
            (Blank(LabelOf(n)) /\ NumericCoordinates(n) /\ EligibleRefs # {}) =>
                LET unnamed == {k \in EligibleRefs : Blank(Get(rooms_data[k], "name", <<>>))}
                IN  IF unnamed # {}
                    THEN /\ ExactRule(LabelOf(n), FirstOf(unnamed))
                         /\ ButtonAtDetection(n, FirstOf(unnamed))
                    ELSE /\ ~ \E k \in EligibleRefs : ExactRule(LabelOf(n), k)
                         /\ SubstringRule(LabelOf(n), FirstOf(EligibleRefs))
                         /\ ButtonAtDetection(n, FirstOf(EligibleRefs))

\* C30, the case: a label of two spaces was detected at pixel (600, 450) of a
\* canvas of 800 x 600 for the rooms Bedroom and a room named ""; its button,
\* at (75, 75), is bound to the second room.
C30_Witness ==
    /\ pc = "while" /\ i = 1
    /\ width = 800 /\ height = 600
    /\ rooms_data = <<RoomBedroom, RoomBlank>>
    /\ response.buttons = <<DetBlank>>
    /\ buttons = <<[x_percent |-> 75 * Scale, y_percent |-> 75 * Scale, room_data |-> 2]>>

====
